---------------------------- MODULE Spec2Model ----------------------------
(***************************************************************************)
(* Retrieval core of the quantum-mechanics assistant: the on-disk vector   *)
(* store (quantum_index/index.faiss + index.pkl), create_vector_store,     *)
(* retrieve_answer, format_latex, the /rag endpoint and the rebuild        *)
(* script.  Strings are sequences of one-character strings; the literal    *)
(* pieces of an f-string are kept as single tokens.                        *)
(***************************************************************************)
EXTENDS Integers, Sequences, FiniteSets, TLC

(***************************************************************************)
(* Bounds of the model.                                                    *)
(***************************************************************************)
MaxK == 2            \* k of retrieve_answer ranges over 0..MaxK
MaxTextLen == 3      \* format_latex is called on every text up to this length
Extra == 100         \* the long test pages have ChunkSize + Extra characters
Margin == 50         \* the plain text before and after a long blank stretch
WordLen == 5         \* period of the blanks on the page of words
LineLen == 40        \* period of the line breaks on the page of lines
SentenceLen == 60    \* period of the ". " on the page of sentences

(***************************************************************************)
(* Program constants.                                                      *)
(***************************************************************************)
NumPdfFiles == 4         \* len(PDF_FILES)
ChunkSize == 800         \* chunk_size of the splitter
ChunkOverlap == 100      \* chunk_overlap of the splitter
DisplayMaxLen == 100     \* len(line) < 100 in format_latex

PDF_FILES == 1..NumPdfFiles

DefaultK == 3            \* k: int = 3 of retrieve_answer

\* "rag" is a GET /rag request, which calls retrieve_answer with the default
\* k; "call" is a direct call retrieve_answer(query, k); "script" is a run
\* of rebuild_vector_store.py
Queries == {"rag", "call"}
Script == "script"
Procs == Queries \cup {Script}

Min(a, b) == IF a <= b THEN a ELSE b

(***************************************************************************)
(* Text helpers (str.strip, str.split, str.join, str.count).               *)
(***************************************************************************)
Whitespace == {" ", "\n", "\t", "\r"}

\* [a-zA-Z] of the LaTeX-command pattern
Letters ==
    {"a", "b", "c", "d", "e", "f", "g", "h", "i", "j", "k", "l", "m",
     "n", "o", "p", "q", "r", "s", "t", "u", "v", "w", "x", "y", "z",
     "A", "B", "C", "D", "E", "F", "G", "H", "I", "J", "K", "L", "M",
     "N", "O", "P", "Q", "R", "S", "T", "U", "V", "W", "X", "Y", "Z"}

\* the eight math symbols; the five non-ASCII ones are named tokens
MathChars == {"=", "^", "_", "INTEGRAL", "SUM", "PARTIAL", "DELTA", "SQRT"}

\* the positions of s that hold no whitespace
Inked(s) == {i \in 1..Len(s) : s[i] \notin Whitespace}

FirstOf(S) == CHOOSE i \in S : \A j \in S : i <= j
LastOf(S) == CHOOSE i \in S : \A j \in S : j <= i

LStrip(s) == IF Inked(s) = {} THEN <<>> ELSE SubSeq(s, FirstOf(Inked(s)), Len(s))

RStrip(s) == IF Inked(s) = {} THEN <<>> ELSE SubSeq(s, 1, LastOf(Inked(s)))

Strip(s) == RStrip(LStrip(s))

\* the positions of s that hold a line break, and the n-th of them; the
\* text's start and end count as the 0th and the last
Breaks(s) == {i \in 1..Len(s) : s[i] = "\n"}

BreakAt(s, n) ==
    IF n = 0 THEN 0
    ELSE IF n > Cardinality(Breaks(s)) THEN Len(s) + 1
    ELSE CHOOSE i \in Breaks(s) : Cardinality({j \in Breaks(s) : j < i}) = n - 1

\* text.split("\n"): always at least one piece, separators removed
SplitLines(s) ==
    [n \in 1..(Cardinality(Breaks(s)) + 1) |->
        SubSeq(s, BreakAt(s, n - 1) + 1, BreakAt(s, n) - 1)]

\* sep.join(parts)
RECURSIVE Join(_, _)
Join(parts, sep) ==
    IF parts = <<>> THEN <<>>
    ELSE IF Len(parts) = 1 THEN parts[1]
    ELSE parts[1] \o sep \o Join(Tail(parts), sep)

Count(s, c) == Cardinality({i \in 1..Len(s) : s[i] = c})

(***************************************************************************)
(* format_latex                                                            *)
(***************************************************************************)
HasMath(line) == \E i \in 1..Len(line) : line[i] \in MathChars

\* re.search(r'\\[a-zA-Z]+', line)
HasGreek(line) ==
    \E i \in 1..(Len(line) - 1) : line[i] = "\\" /\ line[i + 1] \in Letters

\* variant: the length test lets a line of exactly 100 characters through
FormatLineUpTo(line) ==
    IF HasMath(line) \/ HasGreek(line)
    THEN IF Count(line, "=") >= 1 /\ Len(line) <= DisplayMaxLen
         THEN <<"$", "$">> \o line \o <<"$", "$">>
         ELSE <<"$">> \o line \o <<"$">>
    ELSE line

FormatLine(line) ==
    IF HasMath(line) \/ HasGreek(line)
    THEN IF Count(line, "=") >= 1 /\ Len(line) < DisplayMaxLen
         THEN <<"$", "$">> \o line \o <<"$", "$">>
         ELSE <<"$">> \o line \o <<"$">>
    ELSE line

\* the loop body's "if not line: continue"
KeepLine(line) == line # <<>>

RECURSIVE FormatLines(_)
FormatLines(lines) ==
    IF lines = <<>> THEN <<>>
    ELSE LET line == Strip(Head(lines))
         IN  IF KeepLine(line)
             THEN <<FormatLine(line)>> \o FormatLines(Tail(lines))
             ELSE FormatLines(Tail(lines))

FormatLatex(text) == Join(FormatLines(SplitLines(text)), <<"\n">>)

(***************************************************************************)
(* The source documents: what PyPDFLoader yields for each of PDF_FILES.    *)
(* Page numbers are the loader's 0-based metadata.                         *)
(***************************************************************************)
PdfPages(p) ==
    CASE p = 1 -> << [source |-> 1, page |-> 0,
                      text |-> <<" ", "E", "=", "m", "c", "^", "2", "\n", "\n", "a", "b", " ">>] >>
      [] p = 2 -> << [source |-> 2, page |-> 0, text |-> <<"\\", "a", " ", "b">>],
                     [source |-> 2, page |-> 1, text |-> <<"a", "b">>] >>
      [] p = 3 -> << [source |-> 3, page |-> 0, text |-> <<" ", "\n", " ">>] >>
      [] p = 4 -> << [source |-> 4, page |-> 0,
                      text |-> <<"a", "\n", "\n", "-", "-", "-", "\n", "\n", "b">>] >>

\* the loop of create_vector_store over pdf_files: missing paths are skipped
RECURSIVE LoadFrom(_, _)
LoadFrom(p, existing) ==
    IF p > NumPdfFiles THEN <<>>
    ELSE (IF p \in existing THEN PdfPages(p) ELSE <<>>) \o LoadFrom(p + 1, existing)

LoadDocs(existing) == LoadFrom(1, existing)

\* RecursiveCharacterTextSplitter.split_text on a text below chunk_size:
\* the pieces merge back into one chunk, stripped, and an empty chunk is dropped
SplitText(text) ==
    CASE Len(text) < ChunkSize ->
        IF Strip(text) = <<>> THEN <<>> ELSE <<Strip(text)>>

RECURSIVE SplitDocuments(_)
SplitDocuments(docs) ==
    IF docs = <<>> THEN <<>>
    ELSE LET d == Head(docs)
             texts == SplitText(d.text)
         IN  [i \in 1..Len(texts) |->
                 [source |-> d.source, page |-> d.page, text |-> texts[i]]]
             \o SplitDocuments(Tail(docs))

\* the chunks an index built from the PDF set `existing` holds
Chunks(existing) == SplitDocuments(LoadDocs(existing))

(***************************************************************************)
(* similarity_search: the k nearest of the n stored vectors, each mapped   *)
(* to its document through the metadata file.  The two modelled queries    *)
(* rank the vectors in opposite orders.                                    *)
(***************************************************************************)
QueryTexts == {"fwd", "rev"}

\* the text each of the two modelled calls carries
QueryOf(q) == IF q = "rag" THEN "fwd" ELSE "rev"


Rank(query, n, i) == IF query = "fwd" THEN i ELSE n + 1 - i

SearchIds(query, n, k) == [i \in 1..Min(n, k) |-> Rank(query, n, i)]

(***************************************************************************)
(* The response of retrieve_answer                                         *)
(***************************************************************************)
Separator == <<"\n", "\n", "-", "-", "-", "\n", "\n">>

NoInfoMsg == <<"No relevant information found in the documents.">>

ErrorMsg(e) == <<"Error retrieving information: ", e>>

\* variant: enumerate(results) counts from 0
RankLabelFromZero(i) == i - 1

\* enumerate(results, 1)
RankLabel(i) == i

SourceBlock(i, result) ==
    <<"**Source ", ToString(RankLabel(i)), "** (Page ", ToString(result.page), "):", "\n">>
    \o FormatLatex(Strip(result.text))

FormatResults(results) ==
    Join([i \in 1..Len(results) |-> SourceBlock(i, results[i])], Separator)

(***************************************************************************)
(* State                                                                   *)
(***************************************************************************)
VARIABLES
    pdfs,        \* the paths of PDF_FILES that exist
    modelOk,     \* the embedding model all-MiniLM-L6-v2 can be loaded
    fs,          \* VECTOR_STORE_DIR: [dir, faiss, pkl]
    pc,          \* position of each call of retrieve_answer and of the script
    all_docs,    \* create_vector_store: the PDFs whose pages were loaded
    qin,         \* retrieve_answer: the arguments [query, k]
    seen,        \* what VECTOR_STORE_DIR held when the call checked it
    vector_store,\* retrieve_answer: the files FAISS.load_local has read
    results,     \* retrieve_answer: similarity_search's result list
    ret,         \* how retrieve_answer ended: [raised, text, exc]
    http,        \* the JSON object the /rag request was answered with
    before       \* the store on disk when the current script run began

\* format_latex called on its own
VARIABLES
    fmt_text,    \* format_latex: the argument text
    formatted    \* format_latex: whether it has returned, and what

formatVars == <<fmt_text, formatted>>

\* splitter.split_documents at work on one page
VARIABLES
    page,         \* the page whose page_content is split
    split_pc,     \* "idle", "run" (inside split_text) or "done"
    frames,       \* the calls of _split_text under way, innermost last
    merge,        \* the call of _merge_splits under way, if any
    final_chunks  \* the chunks produced so far, in order

chunkVars == <<page, split_pc, frames, merge, final_chunks>>

\* the Streamlit session of sapp.py
VARIABLES
    debug_mode,   \* DEBUG_MODE: the page was opened with ?debug=true
    last_error,   \* st.session_state.last_error
    ui_pc,        \* "idle", or "waiting" inside requests.get
    ui_mode,      \* the argument mode of get_response
    ui_ret        \* where the last call of get_response returned, and what

uiVars == <<debug_mode, last_error, ui_pc, ui_mode, ui_ret>>
libVars == <<formatVars, chunkVars, uiVars>>

envVars == <<pdfs, modelOk>>
queryVars == <<qin, seen, vector_store, results, ret, http>>
progVars == <<pdfs, modelOk, fs, pc, all_docs, qin, seen, vector_store,
             results, ret, http, before>>
vars == <<progVars, libVars>>

\* a file of the store: who wrote it and from which PDFs
NoFile == [st |-> "none", by |-> "none", docs |-> {}]
FullFile(b, d) == [st |-> "full", by |-> b, docs |-> d]

NoStore == [dir |-> FALSE, faiss |-> NoFile, pkl |-> NoFile]
DirOnly == [dir |-> TRUE, faiss |-> NoFile, pkl |-> NoFile]
OldStore(d) == [dir |-> TRUE, faiss |-> FullFile("old", d), pkl |-> FullFile("old", d)]

NoRet == [raised |-> FALSE, text |-> <<>>, exc |-> "pending"]
NoHttp == [keys |-> {}, context |-> <<>>, error |-> "none"]
NoIn == [query |-> "none", k |-> 0]
NoSeen == [dir |-> FALSE, files |-> FALSE, route |-> "none"]
NoBefore == [complete |-> FALSE, by |-> "none", docs |-> {}]

\* variant: the check asks for both files, so a directory without them
\* sends the call to the build
DirAndFilesExist(f) == f.dir /\ f.faiss.st # "none" /\ f.pkl.st # "none"

\* os.path.exists(VECTOR_STORE_DIR), the test retrieve_answer makes
DirExists(f) == f.dir

\* vector_store_exists(): the directory and both required files
vector_store_exists(f) == f.dir /\ f.faiss.st # "none" /\ f.pkl.st # "none"

\* both files present and written by the same save
StoreComplete(f) ==
    /\ f.dir /\ f.faiss.st = "full" /\ f.pkl.st = "full"
    /\ f.faiss.by = f.pkl.by /\ f.faiss.docs = f.pkl.docs

\* what a store holds, without the identity of the save that wrote it
Content(f) == [dir |-> f.dir, faiss |-> f.faiss.docs, pkl |-> f.pkl.docs]

\* the PDF sets the runs start from: all four present, one with text next
\* to the blank one, only the blank one, none
PdfConfigs == {PDF_FILES, {3, 4}, {3}, {}}

NotFormatted == [returned |-> FALSE, out |-> <<>>]

\* no call of format_latex on its own is under way
FormatIdle == fmt_text = <<>> /\ formatted = NotFormatted

NoMerge == [on |-> FALSE, flo |-> 0, fhi |-> 0, level |-> 0, hi |-> 0, d |-> 0, cs |-> 0]

\* the splitter is not at work on a page of its own
ChunkIdle ==
    /\ page = "none"
    /\ split_pc = "idle"
    /\ frames = <<>>
    /\ merge = NoMerge
    /\ final_chunks = <<>>

\* st.session_state.last_error = None; an error message is never empty
None == <<>>

NoUiRet == [at |-> "none", value |-> <<>>]

\* no session of the UI is open
UiIdle ==
    /\ debug_mode = FALSE
    /\ last_error = None
    /\ ui_pc = "idle"
    /\ ui_mode = "ai"
    /\ ui_ret = NoUiRet

LibIdle == FormatIdle /\ ChunkIdle /\ UiIdle

InitLocals ==
    /\ pc = [p \in Procs |-> "idle"]
    /\ all_docs = [p \in Procs |-> {}]
    /\ qin = [q \in Queries |-> NoIn]
    /\ seen = [q \in Queries |-> NoSeen]
    /\ vector_store = [q \in Queries |-> [faiss |-> NoFile, pkl |-> NoFile]]
    /\ results = [q \in Queries |-> <<>>]
    /\ ret = [q \in Queries |-> NoRet]
    /\ http = NoHttp
    /\ before = NoBefore

Init ==
    /\ pdfs \in PdfConfigs
    /\ modelOk \in BOOLEAN
    /\ fs \in {NoStore, OldStore(PDF_FILES)}
    /\ InitLocals
    /\ LibIdle

\* the script alone: it may also find what a failed save or an earlier
\* build from other PDFs left behind
InitRebuild ==
    /\ pdfs \in PdfConfigs
    /\ modelOk \in BOOLEAN
    /\ fs \in {NoStore, DirOnly, [DirOnly EXCEPT !.faiss = FullFile("old", PDF_FILES)],
               OldStore(PDF_FILES), OldStore({3, 4})}
    /\ InitLocals
    /\ LibIdle

(***************************************************************************)
(* How a call ends.  retrieve_answer catches every exception and returns   *)
(* the error string; /rag wraps what it got into a JSON object.            *)
(***************************************************************************)
Returned(text) == [raised |-> FALSE, text |-> text, exc |-> "none"]

\* variant: the except clause logs and re-raises, as create_vector_store does
RetrieveReraise(e) == [raised |-> TRUE, text |-> <<>>, exc |-> e]

\* the except clause of retrieve_answer
RetrieveCatch(e) == [raised |-> FALSE, text |-> ErrorMsg(e), exc |-> e]

\* the body of rag() after retrieve_info(query) has ended as r
RagResponse(r) ==
    IF r.raised
    THEN [keys |-> {"error", "context"}, context |-> <<>>, error |-> r.exc]
    ELSE IF r.text = <<>>
    THEN [keys |-> {"context"},
          context |-> <<"No relevant information found in documents.">>,
          error |-> "none"]
    ELSE [keys |-> {"context"}, context |-> r.text, error |-> "none"]

Finish(q, r) ==
    /\ ret' = [ret EXCEPT ![q] = r]
    /\ http' = IF q = "rag" THEN RagResponse(r) ELSE http
    /\ pc' = [pc EXCEPT ![q] = "done"]

\* how the script's process ends: its try/except prints the error of a
\* failed build and the script runs off its end; only an exception outside
\* the try ends it with a traceback and a non-zero status
ExitStatus(at) == IF at = "crashed" THEN 1 ELSE 0

\* an exception e leaves create_vector_store (logged and re-raised) or a
\* later step of retrieve_answer: retrieve_answer catches it, the script's
\* try/except prints it and the script ends
Raise(p, e) ==
    IF p \in Queries
    THEN Finish(p, RetrieveCatch(e))
    ELSE /\ pc' = [pc EXCEPT ![p] = "error"]
         /\ UNCHANGED <<ret, http>>

(***************************************************************************)
(* retrieve_answer(query, k): the check of VECTOR_STORE_DIR                *)
(***************************************************************************)
Start(q, query, k) ==
    /\ pc[q] = "idle"
    /\ qin' = [qin EXCEPT ![q] = [query |-> query, k |-> k]]
    /\ seen' = [seen EXCEPT ![q] = [dir |-> fs.dir,
                                    files |-> vector_store_exists(fs),
                                    route |-> IF DirExists(fs) THEN "load" ELSE "build"]]
    /\ pc' = [pc EXCEPT ![q] = IF DirExists(fs) THEN "q_faiss" ELSE "b_prepare"]
    /\ UNCHANGED <<envVars, fs, all_docs, vector_store, results, ret, http, before>>
    /\ UNCHANGED libVars

\* GET /rag?query=...: retrieve_info(query), k left at its default
RagStart == Start("rag", QueryOf("rag"), DefaultK)

\* retrieve_answer(query, k) called directly
CallStart(k) == Start("call", QueryOf("call"), k)

(***************************************************************************)
(* create_vector_store, run by a call (p in Queries) or by the script      *)
(***************************************************************************)
\* os.makedirs(VECTOR_STORE_DIR, exist_ok=True)
Makedirs(f) == [f EXCEPT !.dir = TRUE]

\* what stops the pipeline before the save: no page loaded, the embedding
\* model cannot be loaded, FAISS.from_documents on an empty chunk list
BuildError(existing, model) ==
    IF LoadDocs(existing) = <<>> THEN "ValueError"
    ELSE IF ~model THEN "ModelError"
    ELSE IF Chunks(existing) = <<>> THEN "IndexError"
    ELSE "none"

\* variant: the directory is made first, before anything can fail
PrepareStoreEarly(f, err) == Makedirs(f)

\* os.makedirs comes after the loading, the splitting and the embedding: it
\* is reached only when none of them raised
PrepareStore(f, err) == IF err = "none" THEN Makedirs(f) ELSE f

\* load the PDFs, split, embed, build the store in memory, make the directory
BPrepare(p) ==
    /\ pc[p] = "b_prepare"
    /\ IF BuildError(pdfs, modelOk) # "none"
       THEN /\ Raise(p, BuildError(pdfs, modelOk))
            /\ fs' = PrepareStore(fs, BuildError(pdfs, modelOk))
            /\ UNCHANGED all_docs
       ELSE /\ all_docs' = [all_docs EXCEPT ![p] = pdfs]
            /\ fs' = PrepareStore(fs, BuildError(pdfs, modelOk))
            /\ pc' = [pc EXCEPT ![p] = "b_faiss"]
            /\ UNCHANGED <<ret, http>>
    /\ UNCHANGED <<envVars, qin, seen, vector_store, results, before>>
    /\ UNCHANGED libVars

\* save_local(VECTOR_STORE_DIR) makes the directory again if it is gone and
\* writes index.faiss and then index.pkl, each in place under its final name
\* variant: save_local makes the directory and writes no index.faiss
WriteFaissDirOnly(f, p, d) == Makedirs(f)

WriteFaiss(f, p, d) == [f EXCEPT !.dir = TRUE, !.faiss = FullFile(p, d)]

\* variant: save_local stops after index.faiss
WritePklSkipped(f, p, d) == f

WritePkl(f, p, d) == [f EXCEPT !.pkl = FullFile(p, d)]

BWriteFaiss(p) ==
    /\ pc[p] = "b_faiss"
    /\ fs' = WriteFaiss(fs, p, all_docs[p])
    /\ pc' = [pc EXCEPT ![p] = "b_pkl"]
    /\ UNCHANGED <<envVars, all_docs, queryVars, before>>
    /\ UNCHANGED libVars

\* the write fails (disk full, no permission): save_local raises
BSaveFail(p) ==
    /\ pc[p] = "b_faiss"
    /\ fs' = Makedirs(fs)
    /\ Raise(p, "SaveError")
    /\ UNCHANGED <<envVars, all_docs, qin, seen, vector_store, results, before>>
    /\ UNCHANGED libVars

\* open(index.pkl, "wb") fails when the directory was removed meanwhile
BWritePkl(p) ==
    /\ pc[p] = "b_pkl"
    /\ IF ~fs.dir
       THEN Raise(p, "FileNotFoundError") /\ UNCHANGED fs
       ELSE /\ fs' = WritePkl(fs, p, all_docs[p])
            /\ pc' = [pc EXCEPT ![p] = IF p \in Queries THEN "q_faiss" ELSE "success"]
            /\ UNCHANGED <<ret, http>>
    /\ UNCHANGED <<envVars, all_docs, qin, seen, vector_store, results, before>>
    /\ UNCHANGED libVars

(***************************************************************************)
(* retrieve_answer after the check: load, search, format                   *)
(***************************************************************************)
\* FAISS.load_local reads index.faiss and then index.pkl
Readable(file) == file.st = "full"

QLoadFaiss(q) ==
    /\ pc[q] = "q_faiss"
    /\ IF ~modelOk
       THEN Raise(q, "ModelError") /\ UNCHANGED vector_store
       ELSE IF ~Readable(fs.faiss)
       THEN Raise(q, "LoadError") /\ UNCHANGED vector_store
       ELSE /\ vector_store' = [vector_store EXCEPT ![q].faiss = fs.faiss]
            /\ pc' = [pc EXCEPT ![q] = "q_pkl"]
            /\ UNCHANGED <<ret, http>>
    /\ UNCHANGED <<envVars, fs, all_docs, qin, seen, results, before>>
    /\ UNCHANGED libVars

QLoadPkl(q) ==
    /\ pc[q] = "q_pkl"
    /\ IF ~Readable(fs.pkl)
       THEN Raise(q, "LoadError") /\ UNCHANGED vector_store
       ELSE /\ vector_store' = [vector_store EXCEPT ![q].pkl = fs.pkl]
            /\ pc' = [pc EXCEPT ![q] = "q_search"]
            /\ UNCHANGED <<ret, http>>
    /\ UNCHANGED <<envVars, fs, all_docs, qin, seen, results, before>>
    /\ UNCHANGED libVars

\* the vectors come from index.faiss, the documents from index.pkl
NumVectors(vs) == Len(Chunks(vs.faiss.docs))
Docstore(vs) == Chunks(vs.pkl.docs)

\* a vector without a document in the metadata file: the lookup raises
SearchFails(vs, query, k) ==
    \E i \in 1..Min(NumVectors(vs), k) :
        Rank(query, NumVectors(vs), i) > Len(Docstore(vs))

\* variant: the result list is cut one short
similarity_search_short(vs, query, k) ==
    LET ids == SearchIds(query, NumVectors(vs), k)
    IN  [i \in 1..(Len(ids) - 1) |-> Docstore(vs)[ids[i]]]

similarity_search(vs, query, k) ==
    LET ids == SearchIds(query, NumVectors(vs), k)
    IN  [i \in 1..Len(ids) |-> Docstore(vs)[ids[i]]]

\* variant: no test for an empty result list, the join of nothing is returned
AnswerJoinOnly(res) == FormatResults(res)

\* the value retrieve_answer returns for a result list
Answer(res) == IF res = <<>> THEN NoInfoMsg ELSE FormatResults(res)

QSearch(q) ==
    /\ pc[q] = "q_search"
    /\ IF SearchFails(vector_store[q], qin[q].query, qin[q].k)
       THEN Raise(q, "KeyError") /\ UNCHANGED results
       ELSE LET res == similarity_search(vector_store[q], qin[q].query, qin[q].k)
            IN  /\ results' = [results EXCEPT ![q] = res]
                /\ Finish(q, Returned(Answer(res)))
    /\ UNCHANGED <<envVars, fs, all_docs, qin, seen, vector_store, before>>
    /\ UNCHANGED libVars

(***************************************************************************)
(* rebuild_vector_store.py                                                 *)
(***************************************************************************)
\* shutil.rmtree(VECTOR_STORE_DIR) when the directory exists
RemoveOld(f) == IF DirExists(f) THEN NoStore ELSE f

\* os.path.getsize(pdf) for every pdf of PDF_FILES, outside any try: a
\* missing file ends the script with an uncaught FileNotFoundError
SizesOk(existing) == PDF_FILES \subseteq existing

Snapshot(f) ==
    IF StoreComplete(f)
    THEN [complete |-> TRUE, by |-> f.faiss.by, docs |-> f.faiss.docs]
    ELSE NoBefore

RStart ==
    /\ pc[Script] = "idle"
    /\ before' = Snapshot(fs)
    /\ fs' = RemoveOld(fs)
    /\ pc' = [pc EXCEPT ![Script] = IF SizesOk(pdfs) THEN "b_prepare" ELSE "crashed"]
    /\ UNCHANGED <<envVars, all_docs, queryVars>>
    /\ UNCHANGED libVars

\* the process ends; the script can be started again
RExit ==
    /\ pc[Script] \in {"success", "error", "crashed"}
    /\ pc' = [pc EXCEPT ![Script] = "idle"]
    /\ all_docs' = [all_docs EXCEPT ![Script] = {}]
    /\ UNCHANGED <<envVars, fs, queryVars, before>>
    /\ UNCHANGED libVars

Build(p) ==
    \/ BPrepare(p)
    \/ BWriteFaiss(p)
    \/ BSaveFail(p)
    \/ BWritePkl(p)

Rebuild == RStart \/ Build(Script) \/ RExit

Retrieve(q) ==
    \/ Build(q)
    \/ QLoadFaiss(q)
    \/ QLoadPkl(q)
    \/ QSearch(q)

Next ==
    \/ Rebuild
    \/ RagStart
    \/ \E k \in 0..MaxK : CallStart(k)
    \/ \E q \in Queries : Retrieve(q)

Spec == Init /\ [][Next]_vars

\* the rebuild script alone, run one time after another
SpecRebuild == InitRebuild /\ [][Rebuild]_vars

\* the service alone, started with no VECTOR_STORE_DIR, on a disk that takes
\* the writes of save_local.  A call that has been started runs on to its
\* return (the interpreter keeps executing it); when a client sends a
\* request is left open.
InitServe ==
    /\ pdfs \in PdfConfigs
    /\ modelOk \in BOOLEAN
    /\ fs = NoStore
    /\ InitLocals
    /\ LibIdle

Serve(q) ==
    \/ BPrepare(q)
    \/ BWriteFaiss(q)
    \/ BWritePkl(q)
    \/ QLoadFaiss(q)
    \/ QLoadPkl(q)
    \/ QSearch(q)

NextServe ==
    \/ RagStart
    \/ \E k \in 0..MaxK : CallStart(k)
    \/ \E q \in Queries : Serve(q)

\* the positions a call of retrieve_answer goes through
PcValues == {"idle", "b_prepare", "b_faiss", "b_pkl", "q_faiss", "q_pkl", "q_search", "done"}

\* a call that is under way executes its next statement: its position
\* moves on.  Every step of Serve(q) is such a step, and Serve(q) has a
\* step at every position between the start and the return.
Runs(q) ==
    /\ pc[q] \notin {"idle", "done"}
    /\ \E to \in PcValues \ {pc[q]} : pc' = [pc EXCEPT ![q] = to]

SpecServe ==
    /\ InitServe
    /\ [][NextServe]_vars
    /\ \A q \in Queries : WF_pc(Runs(q))

(***************************************************************************)
(* format_latex called on its own, on every text of a bounded set          *)
(***************************************************************************)
FormatAlphabet == {"a", " ", "=", "^", "\\", "\n"}

ShortTexts == UNION {[1..n -> FormatAlphabet] : n \in 0..MaxTextLen}

Pad(n) == [i \in 1..n |-> "a"]

\* lines whose length lies around the limit of 100, with and without
\* surrounding blanks and with and without an "="
LongTexts ==
    {pre \o mark \o Pad(n) \o post :
        pre \in {<<>>, <<" ">>}, post \in {<<>>, <<" ">>},
        mark \in {<<"=">>, <<"^">>},
        n \in (DisplayMaxLen - 3)..DisplayMaxLen}

EmcText == <<"E", " ", "=", " ", "m", "c", "^", "2">>

Texts == ShortTexts \cup LongTexts \cup {EmcText}

InitFormat ==
    /\ pdfs = {}
    /\ modelOk = FALSE
    /\ fs = NoStore
    /\ InitLocals
    /\ fmt_text \in Texts
    /\ formatted = NotFormatted
    /\ ChunkIdle
    /\ UiIdle

FormatCall ==
    /\ ~formatted.returned
    /\ formatted' = [returned |-> TRUE, out |-> FormatLatex(fmt_text)]
    /\ UNCHANGED <<progVars, fmt_text, chunkVars, uiVars>>

SpecFormat == InitFormat /\ [][FormatCall]_vars

(***************************************************************************)
(* RecursiveCharacterTextSplitter(chunk_size=800, chunk_overlap=100,       *)
(* separators=["\n\n", "\n", ". ", " ", ""]) at work on one page.  The     *)
(* page is kept as a function from positions to characters, and a piece, a *)
(* document under construction and a chunk are ranges of positions: with   *)
(* keep_separator (the default) the pieces of a split tile the text, and   *)
(* _merge_splits joins neighbouring pieces with the empty string.          *)
(***************************************************************************)
Separators == << <<"\n", "\n">>, <<"\n">>, <<".", " ">>, <<" ">>, <<>> >>

\* the pages the splitter is run on
PageNames ==
    {"solid", "words", "lines", "sentences", "paragraphs", "exact", "gap", "short", "blank"}

PageLen(t) ==
    CASE t \in {"solid", "words", "lines", "sentences"} -> ChunkSize + Extra
      [] t = "paragraphs" -> ChunkSize + Margin + 2 + Margin
      [] t = "exact" -> Margin + ChunkSize
      [] t = "gap" -> Margin + ChunkSize + Margin
      [] t = "short" -> Margin
      [] t = "blank" -> 3

\* the character at position p of page t
CharAt(t, p) ==
    CASE t = "solid" -> "a"
      [] t = "words" -> IF p % WordLen = 0 THEN " " ELSE "a"
      [] t = "lines" -> IF p % LineLen = 0 THEN "\n" ELSE "a"
      [] t = "sentences" ->
            IF p % SentenceLen = SentenceLen - 1 THEN "."
            ELSE IF p % SentenceLen = 0 THEN " " ELSE "a"
      [] t = "paragraphs" ->
            \* one paragraph longer than a chunk, a break, a short paragraph
            IF p \in {ChunkSize + Margin + 1, ChunkSize + Margin + 2} THEN "\n" ELSE "a"
      [] t = "exact" ->
            \* the second paragraph, with the break before it, is exactly
            \* chunk_size long
            IF p \in {Margin + 1, Margin + 2} THEN "\n" ELSE "a"
      [] t = "gap" -> IF p <= Margin \/ p > Margin + ChunkSize THEN "a" ELSE " "
      [] t = "short" -> IF p \in {1, Margin} THEN " " ELSE IF p = 3 THEN "\n" ELSE "a"
      [] t = "blank" -> IF p = 2 THEN "\n" ELSE " "

\* page_content as a string
PageText(t) == [p \in 1..PageLen(t) |-> CharAt(t, p)]

\* the separator sep stands at position p of the text that ends at hi
RawAt(t, sep, p, hi) ==
    /\ sep # <<>>
    /\ p + Len(sep) - 1 <= hi
    /\ \A j \in 1..Len(sep) : CharAt(t, p + j - 1) = sep[j]

\* how many positions right before p, down to lo, hold the separator too
RunBefore(t, sep, lo, hi, p) ==
    LET stops == {q \in lo..(p - 1) : ~RawAt(t, sep, q, hi)}
    IN  IF stops = {} THEN p - lo ELSE p - 1 - LastOf(stops)

\* re.split scans from the left and its matches do not overlap: of a run of
\* line breaks, "\n\n" matches the first and second, the third and fourth...
MatchAt(t, sep, lo, hi, p) ==
    /\ RawAt(t, sep, p, hi)
    /\ Len(sep) = 1 \/ RunBefore(t, sep, lo, hi, p) % 2 = 0

\* re.search(separator, text) on the text lo..hi
Found(t, sep, lo, hi) == \E p \in lo..hi : RawAt(t, sep, p, hi)

\* _split_text: the first separator of separators[from:] that is "" or occurs
\* in the text
ChooseSeparator(t, lo, hi, from) ==
    FirstOf({i \in from..Len(Separators) :
                Separators[i] = <<>> \/ Found(t, Separators[i], lo, hi)})

\* _split_text_with_regex with keep_separator: every match starts a piece
\* (the separator goes with the text that follows it), empty pieces are
\* dropped; list(text) for the separator "".  The last position of the piece
\* that starts at pos, in the split of lo..hi at separator number level.
PieceEnd(t, lo, hi, level, pos) ==
    IF Separators[level] = <<>> THEN pos
    ELSE LET later == {p \in (pos + 1)..hi : MatchAt(t, Separators[level], lo, hi, p)}
         IN  IF later = {} THEN hi ELSE FirstOf(later) - 1

\* a piece of the split of lo..hi starts at p
PieceStart(t, lo, hi, level, p) ==
    \/ p = lo
    \/ Separators[level] = <<>>
    \/ MatchAt(t, Separators[level], lo, hi, p)

\* _join_docs: the pieces joined and stripped; None when nothing is left
JoinDocs(t, from, to) ==
    LET ink == {p \in from..to : CharAt(t, p) \notin Whitespace}
    IN  IF ink = {} THEN <<>>
        ELSE << [from |-> from, to |-> to, first |-> FirstOf(ink), last |-> LastOf(ink)] >>

\* variant: pieces are dropped from the front only until the next one fits
KeepsPoppingUntilFit(total, len) == total + len > ChunkSize /\ total > 0

\* the condition of the while loop of _merge_splits
KeepsPopping(total, len) ==
    total > ChunkOverlap \/ (total + len > ChunkSize /\ total > 0)

\* where current_doc starts after the while loop: pieces are dropped from
\* its front as long as the condition holds; at d it is empty
PopTo(t, m, len) ==
    FirstOf({b \in m.cs..m.d :
                /\ b = m.d \/ PieceStart(t, m.flo, m.fhi, m.level, b)
                /\ ~KeepsPopping(m.d - b, len)})

\* split_text(page_content): _split_text(text, separators)
SplitStart ==
    /\ split_pc = "idle"
    /\ page \in PageNames
    /\ split_pc' = "run"
    /\ frames' = << [lo |-> 1, hi |-> PageLen(page),
                     level |-> ChooseSeparator(page, 1, PageLen(page), 1),
                     pos |-> 1, good |-> 0] >>
    /\ UNCHANGED <<progVars, formatVars, uiVars, page, merge, final_chunks>>

Top == frames[Len(frames)]

SetTop(f) == [frames EXCEPT ![Len(frames)] = f]

\* _merge_splits(_good_splits, "") is entered for the pieces good..to
StartMerge(f, to) ==
    [on |-> TRUE, flo |-> f.lo, fhi |-> f.hi, level |-> f.level,
     hi |-> to, d |-> f.good, cs |-> f.good]

\* one pass of "for s in splits": a piece shorter than chunk_size joins
\* _good_splits; a longer one has the good pieces merged first and is then
\* split again with the separators that are left
SplitPiece ==
    /\ split_pc = "run" /\ ~merge.on
    /\ Top.pos <= Top.hi
    /\ LET f == Top
           e == PieceEnd(page, f.lo, f.hi, f.level, f.pos)
       IN  IF e - f.pos + 1 < ChunkSize
           THEN /\ frames' = SetTop([f EXCEPT !.pos = e + 1,
                                              !.good = IF f.good = 0 THEN f.pos ELSE f.good])
                /\ UNCHANGED merge
           ELSE IF f.good # 0
           THEN /\ merge' = StartMerge(f, f.pos - 1)
                /\ frames' = SetTop([f EXCEPT !.good = 0])
           ELSE /\ frames' = Append(SetTop([f EXCEPT !.pos = e + 1]),
                                    [lo |-> f.pos, hi |-> e,
                                     level |-> ChooseSeparator(page, f.pos, e, f.level + 1),
                                     pos |-> f.pos, good |-> 0])
                /\ UNCHANGED merge
    /\ UNCHANGED <<progVars, formatVars, uiVars, page, split_pc, final_chunks>>

\* after the loop: the good pieces that are left are merged, and the call
\* returns its chunks to its caller
SplitReturn ==
    /\ split_pc = "run" /\ ~merge.on
    /\ Top.pos > Top.hi
    /\ IF Top.good # 0
       THEN /\ merge' = StartMerge(Top, Top.hi)
            /\ frames' = SetTop([Top EXCEPT !.good = 0])
            /\ UNCHANGED split_pc
       ELSE /\ frames' = SubSeq(frames, 1, Len(frames) - 1)
            /\ split_pc' = IF Len(frames) = 1 THEN "done" ELSE "run"
            /\ UNCHANGED merge
    /\ UNCHANGED <<progVars, formatVars, uiVars, page, final_chunks>>

\* one pass of "for d in splits" of _merge_splits: when the piece does not
\* fit, current_doc is joined into a chunk and shortened from the front;
\* then the piece is appended
MergePiece ==
    /\ merge.on /\ merge.d <= merge.hi
    /\ LET m == merge
           e == PieceEnd(page, m.flo, m.fhi, m.level, m.d)
           len == e - m.d + 1
           total == m.d - m.cs
       IN  IF total + len > ChunkSize /\ total > 0
           THEN /\ final_chunks' = final_chunks \o JoinDocs(page, m.cs, m.d - 1)
                /\ merge' = [m EXCEPT !.d = e + 1, !.cs = PopTo(page, m, len)]
           ELSE /\ merge' = [m EXCEPT !.d = e + 1]
                /\ UNCHANGED final_chunks
    /\ UNCHANGED <<progVars, formatVars, uiVars, page, split_pc, frames>>

\* after the loop of _merge_splits: what is left of current_doc is joined
MergeReturn ==
    /\ merge.on /\ merge.d > merge.hi
    /\ final_chunks' = final_chunks \o JoinDocs(page, merge.cs, merge.hi)
    /\ merge' = NoMerge
    /\ UNCHANGED <<progVars, formatVars, uiVars, page, split_pc, frames>>

InitChunk ==
    /\ pdfs = {}
    /\ modelOk = FALSE
    /\ fs = NoStore
    /\ InitLocals
    /\ FormatIdle
    /\ page \in PageNames
    /\ split_pc = "idle"
    /\ frames = <<>>
    /\ merge = NoMerge
    /\ final_chunks = <<>>
    /\ UiIdle

NextChunk ==
    \/ SplitStart
    \/ SplitPiece
    \/ SplitReturn
    \/ MergePiece
    \/ MergeReturn

SpecChunk == InitChunk /\ [][NextChunk]_vars

(***************************************************************************)
(* sapp.py: get_response(prompt, mode) and st.session_state.last_error.    *)
(* The warning sign that opens every error message and the backticks of    *)
(* its Markdown are left out of the message texts.                         *)
(***************************************************************************)
API_RAG == <<"http://127.0.0.1:8000/rag">>
API_AI == <<"http://127.0.0.1:8000/troubleshoot">>

Modes == {"rag", "ai"}

\* url of get_response
UrlOf(mode) == IF mode = "rag" THEN API_RAG ELSE API_AI

PossibleKeys ==
    <<"response", "answer", "troubleshooting_guide", "context",
      "result", "output", "text", "message">>

\* JSON values: what Python makes of them, and their json.dumps(_, indent=2)
JStr(s) == [type |-> "str", s |-> s, truthy |-> s # <<>>, dump |-> <<"'">> \o s \o <<"'">>]
JNum(n) == [type |-> "num", s |-> <<>>, truthy |-> n # 0, dump |-> <<ToString(n)>>]
JDict == [type |-> "dict", s |-> <<>>, truthy |-> TRUE,
          dump |-> <<"{", "\n", " ", " ", "'steps': 2", "\n", "}">>]
JList == [type |-> "list", s |-> <<>>, truthy |-> TRUE,
          dump |-> <<"[", "\n", " ", " ", "'a'", "\n", "]">>]

\* response bodies: text is response.text, json whether response.json()
\* parses it, type and fields what it yields
JObject(fields, text) == [json |-> TRUE, type |-> "object", fields |-> fields, text |-> text]

Bodies ==
    {JObject([response |-> JStr(<<"a", "n", "s">>)], <<"{'response': 'ans'}">>),
     JObject([context |-> JStr(<<"c", "t", "x">>)], <<"{'context': 'ctx'}">>),
     JObject([response |-> JStr(<<" ", " ">>)], <<"{'response': '  '}">>),
     JObject([response |-> JDict], <<"{'response': {'steps': 2}}">>),
     JObject([context |-> JList], <<"{'context': ['a']}">>),
     JObject([context |-> JStr(<<>>), error |-> JStr(<<"b", "o", "o", "m">>)],
             <<"{'context': '', 'error': 'boom'}">>),
     JObject([foo |-> JNum(1)], <<"{'foo': 1}">>),
     JObject([response |-> JNum(5), answer |-> JStr(<<"a">>)],
             <<"{'response': 5, 'answer': 'a'}">>),
     [json |-> TRUE, type |-> "list", fields |-> <<>>, text |-> <<"[]">>],
     [json |-> FALSE, type |-> "none", fields |-> <<>>, text |-> <<"<html>">>]}

StatusOk == 200
StatusServerError == 500

NoBody == [json |-> FALSE, type |-> "none", fields |-> <<>>, text |-> <<>>]

\* what requests.get(url, params, timeout=60) ends with
Outcomes ==
    {[kind |-> k, status |-> 0, body |-> NoBody] : k \in {"timeout", "connection", "exception"}}
        \cup {[kind |-> "http", status |-> s, body |-> b] :
                 s \in {StatusOk, StatusServerError}, b \in Bodies}

\* the error messages of get_response
StatusMsg(out) ==
    <<"API Error (Status ", ToString(out.status), ")">>
        \o (IF out.body.json /\ out.body.type = "object"
            THEN IF "error" \in DOMAIN out.body.fields
                 THEN <<"\n\n**Details:** ">> \o out.body.fields["error"].s
                 ELSE <<>>
            ELSE IF out.body.json /\ out.body.type = "list"
            THEN <<>>
            ELSE <<"\n\n**Response:** ">> \o out.body.text)

InvalidJsonMsg(out) ==
    <<"Invalid JSON response from API\n\n**Raw response:** ">> \o out.body.text

ApiErrorMsg(data) == <<"API Error: ">> \o data.fields["error"].s

UnexpectedFormatMsg(data) ==
    <<"Unexpected response format.\n\n**Available keys:** ">> \o data.text

TimeoutMsg == <<"Request timed out after 60 seconds. The model might be loading or the server is overloaded. Please try again.">>

ConnectionMsg(mode) ==
    <<"Cannot connect to API server at ">> \o UrlOf(mode) \o <<"\n\n**Troubleshooting:** ...">>

UnexpectedMsg(e) == <<"Unexpected error: ", e, "\n\n**Type:** ", e>>

Traceback(e) == <<"\n\n**Traceback:**\n", e, "\n">>

\* the first of possible_keys the loop returns at, 0 when it returns at none
Usable(v) ==
    v.truthy /\ ((v.type = "str" /\ Strip(v.s) # <<>>) \/ v.type \in {"dict", "list"})

HitKey(data) ==
    LET hits == {i \in 1..Len(PossibleKeys) :
                    /\ PossibleKeys[i] \in DOMAIN data.fields
                    /\ Usable(data.fields[PossibleKeys[i]])}
    IN  IF hits = {} THEN 0 ELSE FirstOf(hits)

\* a return of error_msg after "st.session_state.last_error = error_msg"
ErrorReturn(msg) == [at |-> "error", value |-> msg, last_error |-> msg]

\* the last handler: in debug mode the traceback is appended to the message
\* after last_error was set
ExceptReturn(e, debug) ==
    [at |-> "error",
     value |-> UnexpectedMsg(e) \o (IF debug THEN Traceback(e) ELSE <<>>),
     last_error |-> UnexpectedMsg(e)]

\* get_response for one outcome of the request: where it returns, what it
\* returns and what it leaves in st.session_state.last_error
GetResponse(mode, out, debug, last) ==
    CASE out.kind = "timeout" -> ErrorReturn(TimeoutMsg)
      [] out.kind = "connection" -> ErrorReturn(ConnectionMsg(mode))
      [] out.kind = "exception" -> ExceptReturn("RequestException", debug)
      [] out.kind = "http" /\ out.status # StatusOk -> ErrorReturn(StatusMsg(out))
      [] out.kind = "http" /\ out.status = StatusOk /\ ~out.body.json ->
            ErrorReturn(InvalidJsonMsg(out))
      [] out.kind = "http" /\ out.status = StatusOk /\ out.body.json ->
            IF out.body.type # "object"
            THEN \* data.keys() of a list
                 ExceptReturn("AttributeError", debug)
            ELSE LET data == out.body
                     i == HitKey(data)
                 IN  IF i # 0
                     THEN LET content == data.fields[PossibleKeys[i]]
                          IN  IF content.type = "str"
                              THEN [at |-> "content", value |-> content.s, last_error |-> None]
                              ELSE [at |-> "content", value |-> content.dump, last_error |-> last]
                     ELSE IF "error" \in DOMAIN data.fields
                     THEN ErrorReturn(ApiErrorMsg(data))
                     ELSE ErrorReturn(UnexpectedFormatMsg(data))

\* a prompt is sent: requests.get is under way
UiRequest(mode) ==
    /\ ui_pc = "idle"
    /\ ui_pc' = "waiting"
    /\ ui_mode' = mode
    /\ UNCHANGED <<progVars, formatVars, chunkVars, debug_mode, last_error, ui_ret>>

\* the request ends and get_response returns
UiRespond(out) ==
    /\ ui_pc = "waiting"
    /\ LET r == GetResponse(ui_mode, out, debug_mode, last_error)
       IN  /\ ui_ret' = [at |-> r.at, value |-> r.value]
           /\ last_error' = r.last_error
    /\ ui_pc' = "idle"
    /\ UNCHANGED <<progVars, formatVars, chunkVars, debug_mode, ui_mode>>

\* init_session_state
InitUI ==
    /\ pdfs = {}
    /\ modelOk = FALSE
    /\ fs = NoStore
    /\ InitLocals
    /\ FormatIdle
    /\ ChunkIdle
    /\ debug_mode \in BOOLEAN
    /\ last_error = None
    /\ ui_pc = "idle"
    /\ ui_mode = "ai"
    /\ ui_ret = NoUiRet

NextUI ==
    \/ \E mode \in Modes : UiRequest(mode)
    \/ \E out \in Outcomes : UiRespond(out)

SpecUI == InitUI /\ [][NextUI]_vars

(***************************************************************************)
(* Reading a response back: response.split(Separator)                      *)
(***************************************************************************)
StartsWith(s, pre) == Len(s) >= Len(pre) /\ SubSeq(s, 1, Len(pre)) = pre

RECURSIVE SplitOnFrom(_, _, _)
SplitOnFrom(s, sep, cur) ==
    IF s = <<>> THEN <<cur>>
    ELSE IF StartsWith(s, sep)
    THEN <<cur>> \o SplitOnFrom(SubSeq(s, Len(sep) + 1, Len(s)), sep, <<>>)
    ELSE SplitOnFrom(Tail(s), sep, Append(cur, Head(s)))

SplitOn(s, sep) == SplitOnFrom(s, sep, <<>>)

Succeeded(q) == pc[q] = "done" /\ ret[q].exc = "none"
Failed(q) == pc[q] = "done" /\ ret[q].exc # "none"

BuildErrors == {"ValueError", "ModelError", "IndexError", "SaveError", "FileNotFoundError"}

(***************************************************************************)
(* Properties                                                              *)
(***************************************************************************)

\* C1: retrieve_answer never raises: whatever fails (the build, the model,
\* the load, the search), the call ends by returning a non-empty string,
\* which is the ranked source blocks, the fixed no-information message or
\* the error string of the exception that was caught.
C1_NeverRaises ==
    \A q \in Queries :
        pc[q] = "done" =>
            /\ ~ret[q].raised
            /\ ret[q].text # <<>>
            /\ IF ret[q].exc = "none"
               THEN ret[q].text \in {NoInfoMsg, FormatResults(results[q])}
               ELSE ret[q].text = ErrorMsg(ret[q].exc)

\* a load failure in one call and a build failure in the other, both returned
C1_Witness ==
    /\ Failed("rag") /\ ret["rag"].exc = "LoadError"
    /\ Failed("call") /\ ret["call"].exc \in BuildErrors

\* C2: at the check, a store with either required file missing counts as
\* absent, also when the directory exists: the call goes to the build
\* exactly when a file is missing and to the load only when both are there.
C2_MissingFileMeansBuild ==
    \A q \in Queries :
        seen[q].route # "none" =>
            (seen[q].route = "build" <=> ~seen[q].files)

\* C3: a reader never meets a partially saved store: whenever both files
\* are on disk they come from the same save, and the two files a call has
\* loaded come from the same save.
C3_NoPartialIndex ==
    /\ vector_store_exists(fs) => StoreComplete(fs)
    /\ \A q \in Queries :
           pc[q] = "q_search" => vector_store[q].faiss.by = vector_store[q].pkl.by

\* C4: if a complete store was on disk when a run of the rebuild script
\* began, a complete store is on disk in every state of that run.
C4_OldIndexKept ==
    (pc[Script] # "idle" /\ before.complete) => StoreComplete(fs)

C6_ErrorFieldOnFailure ==
    pc["rag"] = "done" =>
        IF ret["rag"].exc = "none"
        THEN "context" \in http.keys /\ http.context = ret["rag"].text
        ELSE "error" \in http.keys

\* C7: a call that found the directory at its check writes nothing: each of
\* its steps leaves the store as it is and none of them is a step of the
\* build, so a failed load ends the call.
C7_ExistingIndexNotMutated ==
    [][\A q \in Queries :
           (seen'[q].dir /\ pc'[q] # pc[q]) =>
               /\ fs' = fs
               /\ pc'[q] \in {"q_faiss", "q_pkl", "q_search", "done"}
               /\ all_docs'[q] = {}]_vars

\* both calls found the directory; one loaded and searched, the load of the
\* other failed and it ended there
C7_Witness ==
    /\ seen["rag"].dir /\ seen["call"].dir
    /\ Failed("rag") /\ ret["rag"].exc = "LoadError"
    /\ Succeeded("call")

\* C8: when the search returns no result the call returns the fixed
\* message, never the empty string.
C8_EmptyResultMessage ==
    \A q \in Queries :
        (Succeeded(q) /\ results[q] = <<>>) =>
            /\ ret[q].text = NoInfoMsg
            /\ ret[q].text # <<>>

C8_Witness == Succeeded("call") /\ results["call"] = <<>>

\* C9: for a result list r_1..r_m, m > 0, the response splits on the
\* separator into exactly m blocks, and block i is the header with rank
\* label i and the page of r_i followed by format_latex of the stripped
\* text of r_i.
C9_BlocksInRankOrder ==
    \A q \in Queries :
        (Succeeded(q) /\ results[q] # <<>>) =>
            LET blocks == SplitOn(ret[q].text, Separator)
            IN  /\ Len(blocks) = Len(results[q])
                /\ \A i \in 1..Len(blocks) :
                       blocks[i] =
                           <<"**Source ", ToString(i), "** (Page ",
                             ToString(results[q][i].page), "):", "\n">>
                           \o FormatLatex(Strip(results[q][i].text))

\* three blocks from /rag, read from a store of four chunks
C9_Witness == Succeeded("rag") /\ Len(results["rag"]) = 3

\* C10: a call against a store of n vectors with k requested gets exactly
\* min(n, k) results, and its response holds exactly min(n, k) source
\* blocks when there is a result.
C10_MinOfNAndK ==
    \A q \in Queries :
        Succeeded(q) =>
            LET n == NumVectors(vector_store[q])
                m == Min(n, qin[q].k)
            IN  /\ Len(results[q]) = m
                /\ m > 0 => Len(SplitOn(ret[q].text, Separator)) = m
                /\ m = 0 => ret[q].text = NoInfoMsg

\* n = 1 < k: the call gets the one chunk there is
C10_Witness ==
    /\ Succeeded("rag")
    /\ NumVectors(vector_store["rag"]) = 1
    /\ Len(results["rag"]) = 1

\* C11: the loader skips missing paths and loads every existing one in list
\* order; a build fails at the loading step only when no page at all was
\* loaded; and a run of the rebuild script is not failed by a missing file
\* while some document is readable.
C11_MissingFilesSkipped ==
    /\ \A p \in Procs : all_docs[p] # {} => all_docs[p] = pdfs \cap PDF_FILES
    /\ \A q \in Queries :
           (Failed(q) /\ ret[q].exc = "ValueError") <=>
               (pc[q] = "done" /\ seen[q].route = "build" /\ LoadDocs(pdfs) = <<>>)
    /\ LoadDocs(pdfs) # <<>> => pc[Script] # "crashed"

BuildSteps == {"b_prepare", "b_faiss", "b_pkl"}

\* C15: an error of the build pipeline aborts the rebuild script,
\* which then neither reports success nor ends as a normal run (status 0).
C15_BuildErrorAborts ==
    pc[Script] = "error" => (pc[Script] # "success" /\ ExitStatus(pc[Script]) # 0)

\* a call that went through the build and returned an answer
BuiltAndAnswered(q) == Succeeded(q) /\ seen[q].route = "build"

C17_FailedBuildLeavesNoDir ==
    /\ [][\A p \in Procs :
              (pc[p] = "b_prepare" /\ pc'[p] \in {"done", "error"}) => fs' = fs]_vars
    /\ [][\A q \in Queries :
              (pc[q] = "idle" /\ pc'[q] # "idle" /\ ~fs.dir) => pc'[q] = "b_prepare"]_vars

\* the build of /rag failed before the save, the directory is still absent
\* and the other call is on its way to the build
C17_Witness ==
    /\ Failed("rag") /\ ret["rag"].exc \in {"ValueError", "ModelError", "IndexError"}
    /\ seen["rag"].route = "build"
    /\ ~fs.dir
    /\ pc["call"] = "b_prepare"

\* the lines format_latex works on: each line of the text stripped, the
\* empty ones left out
RECURSIVE ProcessedLines(_)
ProcessedLines(lines) ==
    IF lines = <<>> THEN <<>>
    ELSE IF Strip(Head(lines)) = <<>> THEN ProcessedLines(Tail(lines))
    ELSE <<Strip(Head(lines))>> \o ProcessedLines(Tail(lines))

Marked(line) == HasMath(line) \/ HasGreek(line)

Display(line) == <<"$", "$">> \o line \o <<"$", "$">>
Inline(line) == <<"$">> \o line \o <<"$">>

\* C12: for every line format_latex works on (stripped, not empty), the
\* output line is $$line$$ exactly when the line has a math marker, has an
\* "=" and is shorter than 100 characters, and it is $line$ when the line
\* has a marker and is not display math; "E = mc^2" gives "$$E = mc^2$$".
C12_DisplayOrInline ==
    formatted.returned =>
        LET kept == ProcessedLines(SplitLines(fmt_text))
            outs == SplitLines(formatted.out)
        IN  /\ kept = <<>> => formatted.out = <<>>
            /\ kept # <<>> =>
                   /\ Len(outs) = Len(kept)
                   /\ \A i \in 1..Len(kept) :
                          LET line == kept[i]
                              display == /\ Marked(line)
                                         /\ Count(line, "=") >= 1
                                         /\ Len(line) < DisplayMaxLen
                          IN  /\ outs[i] = Display(line) <=> display
                              /\ (Marked(line) /\ ~display) => outs[i] = Inline(line)
            /\ fmt_text = EmcText => formatted.out = Display(EmcText)

\* a line of exactly 100 characters with an "=" came out as inline math
C12_Witness ==
    /\ formatted.returned
    /\ fmt_text = <<"=">> \o Pad(DisplayMaxLen - 1)
    /\ formatted.out = Inline(fmt_text)

\* C13: every input line that is not blank and has no math marker is in
\* the output as it was in the input, surrounding whitespace included.
C13_PlainLinesUnchanged ==
    formatted.returned =>
        LET lines == SplitLines(fmt_text)
            outs == SplitLines(formatted.out)
        IN  \A i \in 1..Len(lines) :
                (Strip(lines[i]) # <<>> /\ ~Marked(lines[i])) =>
                    \E j \in 1..Len(outs) : outs[j] = lines[i]

\* the characters of the page that two chunks both hold
Shared(c1, c2) == (c1.from..c1.to) \cap (c2.from..c2.to)

\* C14: every chunk is at most 800 characters long (already before it is
\* stripped), and two consecutive chunks of a page share at least 0 and at
\* most 100 characters of the page.
C14_ChunkBounds ==
    /\ \A i \in 1..Len(final_chunks) :
           /\ final_chunks[i].to - final_chunks[i].from + 1 <= ChunkSize
           /\ final_chunks[i].last - final_chunks[i].first + 1 <= ChunkSize
    /\ \A i \in 1..(Len(final_chunks) - 1) :
           /\ Cardinality(Shared(final_chunks[i], final_chunks[i + 1])) >= 0
           /\ Cardinality(Shared(final_chunks[i], final_chunks[i + 1])) <= ChunkOverlap

\* the page without any separator has been split into a chunk of exactly
\* 800 characters and a second one that repeats its last 100
C14_Witness ==
    /\ split_pc = "done" /\ page = "solid"
    /\ Len(final_chunks) = 2
    /\ final_chunks[1].last - final_chunks[1].first + 1 = ChunkSize
    /\ Cardinality(Shared(final_chunks[1], final_chunks[2])) = ChunkOverlap

\* C18: get_response returns a value for every outcome of the request and
\* never raises; once it has returned, last_error is None when it returned
\* content of the API and is the returned error message otherwise.
C18_LastErrorMatchesReturn ==
    ui_ret.at # "none" =>
        /\ ui_ret.at \in {"content", "error"}
        /\ ui_ret.at = "content" => last_error = None
        /\ ui_ret.at = "error" => last_error = ui_ret.value
=============================================================================
